---- MODULE Spec2Model ----
(***************************************************************************)
(* Model of package appender (contain): an Appender pulls a base image,   *)
(* appends layers, annotates the result with the base's provenance and    *)
(* pushes it, draining the registry writer's progress channel while the   *)
(* writer goroutine runs.                                                  *)
(***************************************************************************)
EXTENDS Integers, Sequences, FiniteSets, TLC

(* ---------------------------------------------------------------- bounds *)

\* Append()/LayerType() calls made on one instance.
MaxCalls == 2
\* Updates the registry writer sends during one push.
MaxUpdates == 4
\* Capacity of progressChan, scaled down from the source's 200 so that the
\* writer can fill it (MaxUpdates exceeds it).
ProgressCap == 2
\* Clock ticks observed during one push.
MaxTime == 4
\* Ticks that may pass between the two time.Now() reads of one iteration.
MaxSkew == 1
\* Updates sent and ticks observed during a push of the build environment.
BuildUpdates == 1
BuildTicks == 1
\* Ticks observed during a push of the scheduling environment.
FairTicks == 1

(* ------------------------------------------------------------- constants *)

\* progressReportMinInterval = "1s", in clock ticks.
progressReportMinInterval == 1
\* Mutant: the result channel has room for the writer's value only.
ErrCapWriterOnly == Len(<<"writer">>)

\* errChan := make(chan error, 2)
ErrCap == 2

(* ------------------------------------------------------------ references *)

\* The nil name.Reference.
Nil == [kind |-> "nil", registry |-> "", repository |-> "", identifier |-> ""]
NoErr == "<nil error>"

DefaultRegistry == "index.docker.io"
DefaultTag == "latest"

\* A reference string as written: its registry, repository path, tag and
\* digest parts ("" or <<>> where the string leaves the part out).
RefBusybox == [text |-> "busybox:latest", reg |-> "", path |-> <<"busybox">>,
               tag |-> "latest", dig |-> "", wellformed |-> TRUE]
RefPinned == [text |-> "localhost:22500/base@sha256:b5", reg |-> "localhost:22500",
              path |-> <<"base">>, tag |-> "", dig |-> "sha256:b5", wellformed |-> TRUE]
RefTarget == [text |-> "localhost:22500/img:test", reg |-> "localhost:22500",
              path |-> <<"img">>, tag |-> "test", dig |-> "", wellformed |-> TRUE]
RefMalformed == [text |-> "Not A Ref!", reg |-> "", path |-> <<>>,
                 tag |-> "", dig |-> "", wellformed |-> FALSE]

BaseStrings == {RefBusybox, RefPinned, RefMalformed}
TagStrings == {RefTarget, RefMalformed}
PlatformLists == {<<>>, <<"linux/amd64">>, <<"linux/amd64", "linux/arm64">>}

RECURSIVE JoinPath(_)
JoinPath(p) ==
    IF Len(p) = 0 THEN ""
    ELSE IF Len(p) = 1 THEN p[1]
    ELSE p[1] \o "/" \o JoinPath(Tail(p))

\* name.ParseReference: Nil on a malformed string; otherwise a Tag or a
\* Digest reference with the registry, the "library/" prefix of a
\* single-component Docker Hub repository and the tag defaulted.
ParseReference(s) ==
    IF ~s.wellformed THEN Nil
    ELSE LET registry == IF s.reg = "" THEN DefaultRegistry ELSE s.reg
             path == IF registry = DefaultRegistry /\ Len(s.path) = 1
                     THEN <<"library">> \o s.path ELSE s.path
         IN  IF s.dig # ""
             THEN [kind |-> "Digest", registry |-> registry,
                   repository |-> JoinPath(path), identifier |-> s.dig]
             ELSE [kind |-> "Tag", registry |-> registry,
                   repository |-> JoinPath(path),
                   identifier |-> IF s.tag = "" THEN DefaultTag ELSE s.tag]

\* name.Reference.String(): the fully qualified name.
RefString(r) ==
    r.registry \o "/" \o r.repository
        \o (IF r.kind = "Tag" THEN ":" ELSE "@") \o r.identifier

(* ---------------------------------------------------------------- images *)

OCIManifestSchema1 == "application/vnd.oci.image.manifest.v1+json"
DockerManifestSchema2 == "application/vnd.docker.distribution.manifest.v2+json"
DockerManifestSchema1 == "application/vnd.docker.distribution.manifest.v1+json"
OCILayer == "application/vnd.oci.image.layer.v1.tar+gzip"
DockerLayer == "application/vnd.docker.image.rootfs.diff.tar.gzip"

AnnotationBaseImageDigest == "org.opencontainers.image.base.digest"
AnnotationBaseImageName == "org.opencontainers.image.base.name"
AnnotationKeys == <<AnnotationBaseImageDigest, AnnotationBaseImageName>>

Layer(id, mt) == [id |-> id, mediaType |-> mt]
NoAnnotations == [k \in {} |-> ""]
Image(mt, layers) == [mediaType |-> mt, layers |-> layers, annotations |-> NoAnnotations]
\* The nil v1.Image; also a destination that holds no manifest.
NoImage == Image("", <<>>)

\* What the registry may serve at the base reference.
BaseImages ==
    { Image(OCIManifestSchema1, <<Layer("b1", OCILayer)>>),
      Image(DockerManifestSchema2, <<Layer("b1", DockerLayer), Layer("b2", DockerLayer)>>),
      Image(DockerManifestSchema1, <<Layer("b1", DockerLayer)>>) }

\* The layers a caller hands to Append.
LayerArgs ==
    { <<>>,
      <<Layer("n1", OCILayer)>>,
      <<Layer("n1", OCILayer), Layer("n2", DockerLayer)>>,
      <<Layer("n2", DockerLayer), Layer("n1", OCILayer)>> }

ZeroHash == [Algorithm |-> "", Hex |-> ""]
HashString(h) == h.Algorithm \o ":" \o h.Hex

RECURSIVE LayersText(_)
LayersText(ls) ==
    IF Len(ls) = 0 THEN ""
    ELSE ls[1].id \o "~" \o ls[1].mediaType \o ";" \o LayersText(Tail(ls))

RECURSIVE AnnotationsText(_, _)
AnnotationsText(a, i) ==
    IF i > Len(AnnotationKeys) THEN ""
    ELSE (IF AnnotationKeys[i] \in DOMAIN a
          THEN AnnotationKeys[i] \o "=" \o a[AnnotationKeys[i]] \o ";" ELSE "")
         \o AnnotationsText(a, i + 1)

\* The manifest bytes an image serialises to.
ManifestText(img) ==
    img.mediaType \o "[" \o LayersText(img.layers) \o "]{"
        \o AnnotationsText(img.annotations, 1) \o "}"

\* v1.Image.Digest(): the content hash of the manifest.
Digest(img) == [Algorithm |-> "sha256", Hex |-> ManifestText(img)]

\* Mutant: the added layers are put under the base's.
PrependLayers(base, layers) == [base EXCEPT !.layers = layers \o base.layers]

\* mutate.AppendLayers: the base's layers followed by the added ones.
AppendLayers(base, layers) == [base EXCEPT !.layers = base.layers \o layers]

\* mutate.Annotations: the given annotations laid over the manifest's own.
Annotations(img, a) ==
    [img EXCEPT !.annotations =
        [k \in (DOMAIN img.annotations) \cup (DOMAIN a) |->
            IF k \in DOMAIN a THEN a[k] ELSE img.annotations[k]]]

(* ----------------------------------------------------------------- state *)

VARIABLES
    pc,            \* where the calling goroutine is
    fatal,         \* why the process ended ("" while it runs)
    op,            \* the exported call made last
    config,        \* Appender.config
    baseRef,       \* Appender.baseRef
    tagRef,        \* Appender.tagRef
    mediaType,     \* Appender.mediaType ("" until base() succeeds)
    layerType,     \* Appender.layerType ("" until base() succeeds)
    layers,        \* Append: the layers argument
    base,          \* Append: the pulled base image
    baseDigest,    \* Append: baseDigest
    img,           \* Append: img
    imgDigest,     \* Append: imgDigest
    newErr,        \* the error New returned
    ret,           \* what the last Append returned
    ltRet,         \* what the last LayerType returned
    progressChan,  \* push: buffered updates
    closed,        \* push: progressChan has been closed
    errChan,       \* push: buffered results
    nextProgress,  \* push: nextProgress
    now,           \* the clock
    wpc,           \* where the writer goroutine is
    wImg,          \* the image the writer goroutine was given
    wResult,       \* what remote.Write returned
    registry,      \* the manifest stored at the destination reference
    log,           \* the lines push has logged, each with the time read for it
    calls,         \* history: exported calls made on the instance
    pulls,         \* history: pulls of the base issued
    warned,        \* history: platform warnings logged
    stages,        \* history: the stages Append has run
    sent,          \* history: the updates the writer has sent
    errSends,      \* history: the values sent on errChan and who sent them
    errReads,      \* history: the values received from errChan
    startedAt,     \* history: the time push read when it started
    env            \* the environment of the run: what it may be given

inst == <<config, baseRef, tagRef, mediaType, layerType, newErr>>
locals == <<layers, base, baseDigest, img, imgDigest>>
chans == <<progressChan, closed, errChan>>
writer == <<wpc, wImg, wResult, registry, sent>>
hist == <<calls, pulls, warned, stages>>
vars == <<pc, fatal, op, inst, locals, ret, ltRet, chans, nextProgress, now,
          writer, log, hist, errSends, errReads, startedAt, env>>

NoConfig == [Base |-> RefMalformed, Tag |-> RefMalformed, Platforms |-> <<>>]
NoReturn == [hash |-> ZeroHash, err |-> "<no return>"]
Return(h, e) == [hash |-> h, err |-> e]

\* Errors of the registry client.
WriteErrors == {"unauthorized", "connection reset"}
PullError == "pulling"
MediaTypeError == "getting base image media type"
DigestError == "computing digest"
AppendLayersError == "appending layers"

\* v1.Update
Update(complete, total, err) == [Complete |-> complete, Total |-> total, Error |-> err]
\* The updates a transfer may send: bytes completed short of the total, the
\* total reached, and an error.
Updates ==
    { Update(1, 2, NoErr), Update(2, 2, NoErr), Update(0, 0, "unauthorized") }

\* The build environment: every configuration, layer list, base image
\* and failure of a stage, with a short transfer.
EnvBuild ==
    [bases |-> BaseStrings, tags |-> TagStrings, platforms |-> PlatformLists,
     layerArgs |-> LayerArgs, pulled |-> BaseImages \cup {NoImage},
     oks |-> BOOLEAN, updates |-> BuildUpdates, ticks |-> BuildTicks]

\* The push environment: one configuration whose stages succeed, with
\* every transfer of up to MaxUpdates updates over MaxTime ticks.
EnvPush ==
    [bases |-> {RefBusybox}, tags |-> {RefTarget}, platforms |-> {<<>>},
     layerArgs |-> {<<Layer("n1", OCILayer)>>},
     pulled |-> {Image(OCIManifestSchema1, <<Layer("b1", OCILayer)>>)},
     oks |-> {TRUE}, updates |-> MaxUpdates, ticks |-> MaxTime]

\* The scheduling environment: the push environment over fewer ticks.
EnvFair == [EnvPush EXCEPT !.ticks = FairTicks]

Start ==
    /\ pc = "start" /\ fatal = "" /\ op = ""
    /\ config = NoConfig /\ baseRef = Nil /\ tagRef = Nil
    /\ mediaType = "" /\ layerType = ""
    /\ layers = <<>> /\ base = NoImage /\ baseDigest = ZeroHash
    /\ img = NoImage /\ imgDigest = ZeroHash
    /\ newErr = NoReturn.err /\ ret = NoReturn /\ ltRet = ""
    /\ progressChan = <<>> /\ closed = FALSE /\ errChan = <<>>
    /\ nextProgress = 0 /\ now = 0
    /\ wpc = "none" /\ wImg = NoImage /\ wResult = NoErr /\ registry = NoImage
    /\ log = <<>> /\ sent = <<>>
    /\ calls = 0 /\ pulls = 0 /\ warned = 0 /\ stages = <<>>
    /\ errSends = <<>> /\ errReads = <<>> /\ startedAt = 0

Init == Start /\ env = EnvBuild
InitPush == Start /\ env = EnvPush
InitFair == Start /\ env = EnvFair

\* zap.L().Fatal, or a panic: the process ends.
Die(why) == pc' = "dead" /\ fatal' = why

\* Append returns to its caller; its locals go out of scope.
AppendReturns(h, e) ==
    /\ ret' = Return(h, e)
    /\ pc' = "idle"
    /\ layers' = <<>> /\ base' = NoImage /\ baseDigest' = ZeroHash
    /\ img' = NoImage /\ imgDigest' = ZeroHash

(* ----------------------------------------------------------- constructor *)

\* New: both references are parsed, a parse error is only logged, and the
\* debug line calls String() on the base reference, nil or not.
New ==
    /\ pc = "start"
    /\ \E b \in env.bases, t \in env.tags, p \in env.platforms :
        /\ config' = [Base |-> b, Tag |-> t, Platforms |-> p]
        /\ baseRef' = ParseReference(b)
        /\ IF ParseReference(b) = Nil
           THEN /\ Die("panic: nil pointer dereference")
                /\ UNCHANGED <<tagRef, newErr>>
           ELSE /\ tagRef' = ParseReference(t)
                /\ newErr' = NoErr
                /\ pc' = "idle"
                /\ fatal' = fatal
    /\ op' = "New"
    /\ UNCHANGED <<mediaType, layerType, locals, ret, ltRet, chans, nextProgress,
                   now, writer, log, hist, errSends, errReads, startedAt, env>>

(* ---------------------------------------------------------------- Append *)

\* base(): the guard against a second invocation.
BaseAlreadyInvoked == mediaType # ""

\* Mutant: the media type is compared with the wrong manifest type.
LayerTypeForDocker2(mt) == IF mt = DockerManifestSchema2 THEN DockerLayer ELSE OCILayer

\* base(): the layer type that goes with the base manifest's media type.
LayerTypeFor(mt) == IF mt = OCIManifestSchema1 THEN OCILayer ELSE DockerLayer

\* Append's two tests of the platform list: each logs a warning.
AppendWarns(platforms) ==
    warned' = warned + (IF Len(platforms) > 1 THEN 1 ELSE 0)
                     + (IF Len(platforms) = 1 THEN 1 ELSE 0)

\* Mutant: a list of several platforms is refused.
AppendBaseOnePlatform(platforms) ==
    /\ UNCHANGED <<mediaType, layerType, pulls, stages, fatal>>
    /\ IF Len(platforms) > 1
       THEN AppendReturns(ZeroHash, "unsupported multiple platforms")
       ELSE /\ ret' = NoReturn /\ pc' = "baseDigest"
            /\ UNCHANGED <<layers, base, baseDigest, img, imgDigest>>

\* Append after its platform warnings, under a given platform list: base()
\* with its guard, the pull, the media type and the layer type, and
\* Append's return on an error of base().
AppendBase(platforms) ==
    \E ls \in env.layerArgs, pulled \in env.pulled, mtOk \in env.oks :
        IF BaseAlreadyInvoked
        THEN /\ Die("contain.Base() has already been invoked")
             /\ UNCHANGED <<mediaType, layerType, locals, ret, pulls, stages>>
        ELSE /\ pulls' = pulls + 1
             /\ stages' = Append(stages, "fetch")
             /\ fatal' = fatal
             /\ IF pulled = NoImage
                THEN /\ AppendReturns(ZeroHash, PullError)
                     /\ UNCHANGED <<mediaType, layerType>>
                ELSE IF ~mtOk
                THEN /\ AppendReturns(ZeroHash, MediaTypeError)
                     /\ UNCHANGED <<mediaType, layerType>>
                ELSE /\ layerType' = LayerTypeFor(pulled.mediaType)
                     /\ mediaType' = pulled.mediaType
                     /\ base' = pulled
                     /\ layers' = ls
                     /\ ret' = NoReturn
                     /\ pc' = "baseDigest"
                     /\ UNCHANGED <<baseDigest, img, imgDigest>>

\* Append up to its call of base(), and base() itself.
AppendCall ==
    /\ pc = "idle" /\ calls < MaxCalls
    /\ calls' = calls + 1
    /\ op' = "Append"
    /\ ltRet' = ltRet
    /\ AppendWarns(config.Platforms)
    /\ AppendBase(config.Platforms)
    /\ UNCHANGED <<config, baseRef, tagRef, newErr, chans, nextProgress, now,
                   writer, log, errSends, errReads, startedAt, env>>

\* baseDigest, err := base.Digest(): an error is logged and Append goes on
\* with the zero hash.
BaseDigest ==
    /\ pc = "baseDigest"
    /\ \E ok \in env.oks : baseDigest' = IF ok THEN Digest(base) ELSE ZeroHash
    /\ pc' = "appendLayers"
    /\ UNCHANGED <<fatal, op, inst, layers, base, img, imgDigest, ret, ltRet, chans,
                   nextProgress, now, writer, log, hist, errSends, errReads, startedAt, env>>

\* img, err := mutate.AppendLayers(base, layers...): with nothing to add it
\* hands the base back and has no error to give.
AppendLayersStage ==
    /\ pc = "appendLayers"
    /\ stages' = Append(stages, "append")
    /\ \E ok \in env.oks :
        IF ok \/ layers = <<>>
        THEN /\ img' = AppendLayers(base, layers)
             /\ pc' = "annotate"
             /\ UNCHANGED <<layers, base, baseDigest, imgDigest, ret>>
        ELSE AppendReturns(ZeroHash, AppendLayersError)
    /\ UNCHANGED <<fatal, op, inst, ltRet, chans, nextProgress, now, writer, log,
                   calls, pulls, warned, errSends, errReads, startedAt, env>>

\* Mutant: the base name is the reference's fully qualified name.
annotateQualified(image, digest) ==
    LET a == [k \in {AnnotationBaseImageDigest} |-> HashString(digest)]
        b == IF baseRef.kind = "Tag"
             THEN [k \in {AnnotationBaseImageDigest, AnnotationBaseImageName} |->
                      IF k = AnnotationBaseImageDigest THEN a[k]
                      ELSE RefString(baseRef)]
             ELSE a
    IN  Annotations(image, b)

\* annotate: the base digest always, the base name for a tag reference.
annotate(image, digest) ==
    LET a == [k \in {AnnotationBaseImageDigest} |-> HashString(digest)]
        b == IF baseRef.kind = "Tag"
             THEN [k \in {AnnotationBaseImageDigest, AnnotationBaseImageName} |->
                      IF k = AnnotationBaseImageDigest THEN a[k]
                      ELSE "/" \o baseRef.repository \o ":" \o baseRef.identifier]
             ELSE a
    IN  Annotations(image, b)

\* img = c.annotate(img, baseDigest); the err tested after it is the nil
\* that AppendLayers returned.
AnnotateStage ==
    /\ pc = "annotate"
    /\ stages' = Append(stages, "annotate")
    /\ img' = annotate(img, baseDigest)
    /\ pc' = "digest"
    /\ UNCHANGED <<fatal, op, inst, layers, base, baseDigest, imgDigest, ret, ltRet,
                   chans, nextProgress, now, writer, log, calls, pulls, warned,
                   errSends, errReads, startedAt, env>>

\* Mutant: the digest is the one of the image before it was annotated.
ImgDigestBeforeAnnotate ==
    /\ pc = "digest"
    /\ stages' = Append(stages, "digest")
    /\ \E ok \in env.oks :
        IF ok
        THEN /\ imgDigest' = Digest(AppendLayers(base, layers))
             /\ pc' = "push"
             /\ UNCHANGED <<layers, base, baseDigest, img, ret>>
        ELSE AppendReturns(ZeroHash, DigestError)
    /\ UNCHANGED <<fatal, op, inst, ltRet, chans, nextProgress, now, writer, log,
                   calls, pulls, warned, errSends, errReads, startedAt, env>>

\* imgDigest, err := img.Digest()
ImgDigest ==
    /\ pc = "digest"
    /\ stages' = Append(stages, "digest")
    /\ \E ok \in env.oks :
        IF ok
        THEN /\ imgDigest' = Digest(img)
             /\ pc' = "push"
             /\ UNCHANGED <<layers, base, baseDigest, img, ret>>
        ELSE AppendReturns(ZeroHash, DigestError)
    /\ UNCHANGED <<fatal, op, inst, ltRet, chans, nextProgress, now, writer, log,
                   calls, pulls, warned, errSends, errReads, startedAt, env>>

(* ------------------------------------------------------------------ push *)

Line(kind, at) == [kind |-> kind, at |-> at]

\* push up to its loop: the image's media type is read, the channels are
\* made, the writer goroutine is started and nextProgress is set.
PushStart ==
    /\ pc = "push"
    /\ \E mtOk \in env.oks :
        IF ~mtOk
        THEN /\ AppendReturns(ZeroHash, MediaTypeError)
             /\ UNCHANGED <<chans, nextProgress, wpc, wImg, stages, startedAt>>
        ELSE /\ progressChan' = <<>> /\ closed' = FALSE /\ errChan' = <<>>
             /\ wpc' = "spawned" /\ wImg' = img
             /\ nextProgress' = now + progressReportMinInterval
             /\ startedAt' = now
             /\ stages' = Append(stages, "publish")
             /\ pc' = "drain"
             /\ UNCHANGED <<locals, ret>>
    /\ UNCHANGED <<fatal, op, inst, ltRet, now, wResult, registry, sent, log,
                   calls, pulls, warned, errSends, errReads, env>>

\* What remote.Write does next: it sends another update, which waits
\* while the channel is full, or it ends.
WriterNext(n) == IF n < env.updates THEN {"send", "end"} ELSE {"end"}

\* The writer goroutine enters remote.Write, which dereferences the
\* destination reference.
WriterStart ==
    /\ wpc = "spawned" /\ pc # "dead"
    /\ IF tagRef = Nil
       THEN Die("panic: nil pointer dereference") /\ wpc' = wpc
       ELSE wpc' \in WriterNext(0) /\ UNCHANGED <<pc, fatal>>
    /\ UNCHANGED <<op, inst, locals, ret, ltRet, chans, nextProgress, now, wImg,
                   wResult, registry, sent, log, hist, errSends, errReads, startedAt, env>>

\* remote.Write sends an update on the progress channel.
WriterUpdate ==
    /\ wpc = "send" /\ pc # "dead"
    /\ Len(progressChan) < ProgressCap
    /\ \E u \in Updates :
        /\ progressChan' = Append(progressChan, u)
        /\ sent' = Append(sent, u)
    /\ wpc' \in WriterNext(Len(sent) + 1)
    /\ UNCHANGED <<pc, fatal, op, inst, locals, ret, ltRet, closed, errChan,
                   nextProgress, now, wImg, wResult, registry, log, hist,
                   errSends, errReads, startedAt, env>>

\* remote.Write ends: on success the manifest is stored at the destination;
\* either way the progress channel is closed.
WriterClose ==
    /\ wpc = "end" /\ pc # "dead"
    /\ \E r \in WriteErrors \cup {NoErr} :
        /\ wResult' = r
        /\ registry' = IF r = NoErr THEN wImg ELSE registry
    /\ closed' = TRUE
    /\ wpc' = "report"
    /\ UNCHANGED <<pc, fatal, op, inst, locals, ret, ltRet, progressChan, errChan,
                   nextProgress, now, wImg, sent, log, hist, errSends, errReads,
                   startedAt, env>>

\* errChan <- remote.Write(...)
WriterReport ==
    /\ wpc = "report" /\ pc # "dead"
    /\ Len(errChan) < ErrCap
    /\ errChan' = Append(errChan, wResult)
    /\ errSends' = Append(errSends, [by |-> "writer", val |-> wResult])
    /\ wpc' = "done"
    /\ UNCHANGED <<pc, fatal, op, inst, locals, ret, ltRet, progressChan, closed,
                   nextProgress, now, wImg, wResult, registry, sent, log, hist,
                   errReads, startedAt, env>>

\* Mutant: an error update ends the loop without being forwarded.
DrainNoForward ==
    /\ pc = "drain"
    /\ Len(progressChan) > 0
    /\ progressChan' = Tail(progressChan)
    /\ LET update == Head(progressChan) IN
        IF update.Error # NoErr
        THEN /\ Len(errChan) < ErrCap
             /\ log' = Append(log, Line("error", now))
             /\ UNCHANGED <<errChan, errSends>>
             /\ pc' = "result"
             /\ UNCHANGED <<nextProgress, now>>
        ELSE IF update.Complete = update.Total
        THEN /\ log' = Append(log, Line("pushed", now))
             /\ UNCHANGED <<pc, errChan, errSends, nextProgress, now>>
        ELSE IF now > nextProgress
        THEN /\ \E later \in now..(now + MaxSkew) :
                /\ later <= env.ticks
                /\ now' = later
                /\ nextProgress' = later + progressReportMinInterval
             /\ log' = Append(log, Line("push", now))
             /\ UNCHANGED <<pc, errChan, errSends>>
        ELSE UNCHANGED <<pc, errChan, errSends, nextProgress, now, log>>
    /\ UNCHANGED <<fatal, op, inst, locals, ret, ltRet, closed, writer, hist,
                   errReads, startedAt, env>>

\* Mutant: an error update is forwarded and the loop goes on.
DrainNoBreak ==
    /\ pc = "drain"
    /\ Len(progressChan) > 0
    /\ progressChan' = Tail(progressChan)
    /\ LET update == Head(progressChan) IN
        IF update.Error # NoErr
        THEN /\ Len(errChan) < ErrCap
             /\ log' = Append(log, Line("error", now))
             /\ errChan' = Append(errChan, update.Error)
             /\ errSends' = Append(errSends, [by |-> "push", val |-> update.Error])
             /\ UNCHANGED <<pc, nextProgress, now>>
        ELSE IF update.Complete = update.Total
        THEN /\ log' = Append(log, Line("pushed", now))
             /\ UNCHANGED <<pc, errChan, errSends, nextProgress, now>>
        ELSE IF now > nextProgress
        THEN /\ \E later \in now..(now + MaxSkew) :
                /\ later <= env.ticks
                /\ now' = later
                /\ nextProgress' = later + progressReportMinInterval
             /\ log' = Append(log, Line("push", now))
             /\ UNCHANGED <<pc, errChan, errSends>>
        ELSE UNCHANGED <<pc, errChan, errSends, nextProgress, now, log>>
    /\ UNCHANGED <<fatal, op, inst, locals, ret, ltRet, closed, writer, hist,
                   errReads, startedAt, env>>

\* Mutant: a progress line is logged from nextProgress on, not after it.
DrainNotBefore ==
    /\ pc = "drain"
    /\ Len(progressChan) > 0
    /\ progressChan' = Tail(progressChan)
    /\ LET update == Head(progressChan) IN
        IF update.Error # NoErr
        THEN /\ Len(errChan) < ErrCap
             /\ log' = Append(log, Line("error", now))
             /\ errChan' = Append(errChan, update.Error)
             /\ errSends' = Append(errSends, [by |-> "push", val |-> update.Error])
             /\ pc' = "result"
             /\ UNCHANGED <<nextProgress, now>>
        ELSE IF update.Complete = update.Total
        THEN /\ log' = Append(log, Line("pushed", now))
             /\ UNCHANGED <<pc, errChan, errSends, nextProgress, now>>
        ELSE IF now >= nextProgress
        THEN /\ \E later \in now..(now + MaxSkew) :
                /\ later <= env.ticks
                /\ now' = later
                /\ nextProgress' = later + progressReportMinInterval
             /\ log' = Append(log, Line("push", now))
             /\ UNCHANGED <<pc, errChan, errSends>>
        ELSE UNCHANGED <<pc, errChan, errSends, nextProgress, now, log>>
    /\ UNCHANGED <<fatal, op, inst, locals, ret, ltRet, closed, writer, hist,
                   errReads, startedAt, env>>

\* One iteration of the loop over progressChan.
Drain ==
    /\ pc = "drain"
    /\ Len(progressChan) > 0
    /\ progressChan' = Tail(progressChan)
    /\ LET update == Head(progressChan) IN
        IF update.Error # NoErr
        THEN /\ Len(errChan) < ErrCap
             /\ log' = Append(log, Line("error", now))
             /\ errChan' = Append(errChan, update.Error)
             /\ errSends' = Append(errSends, [by |-> "push", val |-> update.Error])
             /\ pc' = "result"
             /\ UNCHANGED <<nextProgress, now>>
        ELSE IF update.Complete = update.Total
        THEN /\ log' = Append(log, Line("pushed", now))
             /\ UNCHANGED <<pc, errChan, errSends, nextProgress, now>>
        ELSE IF now > nextProgress
        THEN /\ \E later \in now..(now + MaxSkew) :
                /\ later <= env.ticks
                /\ now' = later
                /\ nextProgress' = later + progressReportMinInterval
             /\ log' = Append(log, Line("push", now))
             /\ UNCHANGED <<pc, errChan, errSends>>
        ELSE UNCHANGED <<pc, errChan, errSends, nextProgress, now, log>>
    /\ UNCHANGED <<fatal, op, inst, locals, ret, ltRet, closed, writer, hist,
                   errReads, startedAt, env>>

\* Mutant: the loop ends as soon as the channel is empty.
DrainEndsWhenEmpty ==
    /\ pc = "drain"
    /\ Len(progressChan) = 0
    /\ pc' = "result"
    /\ UNCHANGED <<fatal, op, inst, locals, ret, ltRet, chans, nextProgress, now,
                   writer, log, hist, errSends, errReads, startedAt, env>>

\* The loop ends: the channel is closed and empty.
DrainEnds ==
    /\ pc = "drain"
    /\ Len(progressChan) = 0 /\ closed
    /\ pc' = "result"
    /\ UNCHANGED <<fatal, op, inst, locals, ret, ltRet, chans, nextProgress, now,
                   writer, log, hist, errSends, errReads, startedAt, env>>

\* Mutant: the value returned is the one sent last.
PushReturnsLast ==
    /\ pc = "result"
    /\ Len(errChan) > 0
    /\ errChan' = SubSeq(errChan, 1, Len(errChan) - 1)
    /\ errReads' = Append(errReads, errChan[Len(errChan)])
    /\ IF errChan[Len(errChan)] # NoErr
       THEN AppendReturns(ZeroHash, errChan[Len(errChan)])
       ELSE AppendReturns(imgDigest, NoErr)
    /\ UNCHANGED <<fatal, op, inst, ltRet, progressChan, closed, nextProgress, now,
                   writer, log, hist, errSends, startedAt, env>>

\* return <-errChan, and Append's return of what push returned.
PushReturns ==
    /\ pc = "result"
    /\ Len(errChan) > 0
    /\ errChan' = Tail(errChan)
    /\ errReads' = Append(errReads, Head(errChan))
    /\ IF Head(errChan) # NoErr
       THEN AppendReturns(ZeroHash, Head(errChan))
       ELSE AppendReturns(imgDigest, NoErr)
    /\ UNCHANGED <<fatal, op, inst, ltRet, progressChan, closed, nextProgress, now,
                   writer, log, hist, errSends, startedAt, env>>

\* Time passes while push drains.
Tick ==
    /\ pc = "drain"
    /\ now < env.ticks
    /\ now' = now + 1
    /\ UNCHANGED <<pc, fatal, op, inst, locals, ret, ltRet, chans, nextProgress,
                   writer, log, hist, errSends, errReads, startedAt, env>>

(* ------------------------------------------------------------- LayerType *)

NotResolved == "Can not return media type before Base has been called"

\* Mutant: the field is returned without the test for the empty string.
LayerTypeUnchecked ==
    /\ pc = "idle" /\ calls < MaxCalls
    /\ calls' = calls + 1
    /\ op' = "LayerType"
    /\ ltRet' = layerType
    /\ UNCHANGED <<pc, fatal, inst, locals, ret, chans, nextProgress, now, writer, log,
                   pulls, warned, stages, errSends, errReads, startedAt, env>>

LayerType ==
    /\ pc = "idle" /\ calls < MaxCalls
    /\ calls' = calls + 1
    /\ op' = "LayerType"
    /\ IF layerType = ""
       THEN /\ Die(NotResolved)
            /\ ltRet' = ltRet
       ELSE /\ ltRet' = layerType
            /\ UNCHANGED <<pc, fatal>>
    /\ UNCHANGED <<inst, locals, ret, chans, nextProgress, now, writer, log,
                   pulls, warned, stages, errSends, errReads, startedAt, env>>

(* --------------------------------------------------------- specification *)

Next ==
    \/ New
    \/ AppendCall
    \/ BaseDigest
    \/ AppendLayersStage
    \/ AnnotateStage
    \/ ImgDigest
    \/ PushStart
    \/ WriterStart
    \/ WriterUpdate
    \/ WriterClose
    \/ WriterReport
    \/ Drain
    \/ DrainEnds
    \/ PushReturns
    \/ Tick
    \/ LayerType

Spec == Init /\ [][Next]_vars
SpecPush == InitPush /\ [][Next]_vars

\* The goroutines of a push are scheduled: the writer and the caller each
\* take their next step when they can.
WriterSteps == WriterStart \/ WriterUpdate \/ WriterClose \/ WriterReport
PushSteps == Drain \/ DrainEnds \/ PushReturns
FairPush == InitFair /\ [][Next]_vars /\ WF_vars(WriterSteps) /\ WF_vars(PushSteps)

(* ---------------------------------------------------------------- claims *)

\* The push of this run has returned to Append, and Append to its caller.
PushReturned == wpc # "none" /\ ret # NoReturn

\* C1: when Append returns without error, the digest it returns is the
\* digest of the manifest stored at the destination reference.
C1_DigestIsStoredManifest ==
    ret.err = NoErr =>
        /\ registry # NoImage
        /\ ret.hash = Digest(registry)
        /\ ret.hash # ZeroHash

C1_Witness ==
    /\ ret.err = NoErr
    /\ config.Base = RefPinned
    /\ Len(registry.layers) = 4
    /\ AnnotationBaseImageDigest \in DOMAIN registry.annotations

\* C5 as claimed: at most one pull of the base is ever issued on one
\* instance, whether the first resolution succeeded or failed.
C5_AtMostOnePull == pulls <= 1

\* The layer type the claims pair with a manifest media type.
PairedLayerType(mt) == IF mt = OCIManifestSchema1 THEN OCILayer ELSE DockerLayer

\* C6: mediaType and layerType are both unset, or both set with the layer
\* type being the OCI one exactly for an OCI manifest; once set they never
\* change.
C6_MediaTypePairing ==
    /\ [](\/ mediaType = "" /\ layerType = ""
          \/ mediaType # "" /\ layerType = PairedLayerType(mediaType))
    /\ [][mediaType # "" => mediaType' = mediaType /\ layerType' = layerType]_vars

C6_Witness ==
    /\ mediaType = DockerManifestSchema1
    /\ layerType = DockerLayer
    /\ calls = MaxCalls

\* C7: LayerType() on an instance whose base is not resolved ends in the
\* NotResolved misuse outcome and returns no layer type; on a resolved
\* instance it returns the stored layer type and changes no state.
C7_LayerTypeQuery ==
    /\ [](ltRet # "" => mediaType # "" /\ ltRet = layerType)
    /\ [](fatal = NotResolved => mediaType = "" /\ op = "LayerType")
    /\ [][(op' = "LayerType" /\ calls' = calls + 1) =>
            IF mediaType = ""
            THEN pc' = "dead" /\ fatal' = NotResolved /\ ltRet' = ltRet
            ELSE /\ ltRet' = layerType
                 /\ UNCHANGED <<pc, fatal, inst, locals, ret, chans, nextProgress,
                                now, writer, log, pulls, errSends, errReads>>]_vars

C7_Witness ==
    /\ op = "LayerType"
    /\ pc = "idle"
    /\ ltRet = DockerLayer
    /\ mediaType = DockerManifestSchema2

\* The images that carry what annotate set: Append's img from the annotate
\* stage on, the image handed to the writer, the manifest stored.
AnnotatedImages ==
    (IF pc \in {"digest", "push", "drain", "result"} THEN {img} ELSE {})
        \cup ({wImg, registry} \ {NoImage})

C9_QualifiedBaseName ==
    (registry # NoImage /\ config.Base = RefBusybox) =>
        /\ AnnotationBaseImageName \in DOMAIN registry.annotations
        /\ registry.annotations[AnnotationBaseImageName]
              = "index.docker.io/library/busybox:latest"

\* C2 as claimed: when push fails, the error it returns is the terminal
\* error of the registry write, the value the writer goroutine sends on the
\* result channel (stated where the write has ended in an error).
C2_ReturnsWriteError ==
    (PushReturned /\ ret.err # NoErr /\ wpc = "done" /\ wResult # NoErr) =>
        ret.err = wResult

\* The errors of the updates the writer has sent.
UpdateErrors == { sent[i].Error : i \in 1..Len(sent) } \ {NoErr}

\* C2 as amended: when a push that started the registry write fails, the
\* error it returns is the first value sent on the result channel, which
\* is the writer's terminal error or the error of an update that push
\* forwarded, whichever was sent first.
C2_ReturnsFirstResult ==
    PushReturned =>
        /\ errSends # <<>>
        /\ errReads = <<errSends[1].val>>
        /\ ret.err = errSends[1].val
        /\ ret.err # NoErr => ret.hash = ZeroHash
        /\ errSends[1].by = "writer" => errSends[1].val = wResult
        /\ errSends[1].by = "push" => errSends[1].val \in UpdateErrors

C2_Witness ==
    /\ PushReturned
    /\ Len(errSends) = 2
    /\ errSends[1].by = "push"
    /\ errSends[2].by = "writer"
    /\ errSends[2].val # errSends[1].val
    /\ ret.err = "unauthorized"

\* A goroutine waits on a channel operation that cannot proceed.
WriterBlocked ==
    \/ wpc = "send" /\ Len(progressChan) = ProgressCap
    \/ wpc = "report" /\ Len(errChan) = ErrCap
PushBlocked ==
    \/ pc = "drain" /\ Len(progressChan) = 0 /\ ~closed
    \/ pc = "result" /\ Len(errChan) = 0

\* C3: no state has the writer and push both blocked, and under fair
\* scheduling a push that has started its loop returns, for transfers of
\* more updates than the progress channel holds.
C3_PushTerminates ==
    /\ [](~(WriterBlocked /\ PushBlocked))
    /\ [](PushBlocked => wpc \in {"spawned", "send", "end", "report"})
    /\ (pc \in {"drain", "result"}) ~> PushReturned

C3_Witness ==
    /\ PushReturned
    /\ Len(sent) > ProgressCap
    /\ progressChan = <<>>
    /\ wpc = "done"
    /\ UpdateErrors = {}

\* C4 as claimed: the result channel receives exactly one value per push,
\* and that value is the one push returns.
C4_OneResultSent ==
    (PushReturned /\ wpc = "done") => (Len(errSends) = 1 /\ errReads = <<errSends[1].val>>)

\* push has received an error update.
Forwarded == \E i \in 1..(Len(sent) - Len(progressChan)) : sent[i].Error # NoErr

\* C4 as amended: push reads exactly one value from the result channel and
\* returns it; the channel receives the writer's result and, when push
\* received an error update, the forwarded error before or after it: one
\* or two values, of which the first sent is the one read.
C4_OneResultRead ==
    /\ Len(errReads) <= 1
    /\ Len(errSends) <= 2
    /\ \A i, j \in 1..Len(errSends) : errSends[i].by = errSends[j].by => i = j
    /\ (\E i \in 1..Len(errSends) : errSends[i].by = "push") <=> Forwarded
    /\ (\E i \in 1..Len(errSends) : errSends[i].by = "writer") <=> wpc = "done"
    /\ Len(errChan) = Len(errSends) - Len(errReads)
    /\ PushReturned => Len(errReads) = 1 /\ errReads[1] = errSends[1].val

C4_Witness ==
    /\ PushReturned
    /\ wpc = "done"
    /\ Len(errSends) = 2
    /\ errSends[1].by = "writer"
    /\ Len(errChan) = 1

\* The lines of one kind that push has logged.
Lines(kind) == { i \in 1..Len(log) : log[i].kind = kind }

\* Progress lines are more than the interval apart, and none comes within
\* the first interval after the start of push (by the time read for each).
Debounced ==
    /\ \A i \in Lines("push") : log[i].at > startedAt + progressReportMinInterval
    /\ \A i, j \in Lines("push") :
          i < j => log[j].at > log[i].at + progressReportMinInterval

\* C10 as claimed: progress lines are debounced, and a push logs exactly one
\* completion line, whatever updates arrive.
C10_OneCompletionLine ==
    /\ Debounced
    /\ PushReturned => Cardinality(Lines("pushed")) = 1

\* The updates push has received that report completed = total.
Completions ==
    { i \in 1..(Len(sent) - Len(progressChan)) :
        sent[i].Error = NoErr /\ sent[i].Complete = sent[i].Total }

\* C10 as amended: progress lines are debounced, and push logs one
\* completion line for each update it receives with completed = total:
\* none, one or several in a push.
C10_CompletionLinePerUpdate ==
    /\ Debounced
    /\ Cardinality(Lines("pushed")) = Cardinality(Completions)

C10_Witness ==
    /\ PushReturned
    /\ Cardinality(Lines("push")) = 2
    /\ Cardinality(Lines("pushed")) = 2

\* C11: the platform list does not change what Append does: the step Append
\* takes under the configured list is, but for the warning, the step it
\* takes under every other list; a warning is logged exactly when the list
\* is not empty, and no Append ends in an error of the platform list.
C11_PlatformsOnlyWarn ==
    /\ [][(op' = "Append" /\ calls' = calls + 1) =>
            /\ warned' = warned + (IF config.Platforms = <<>> THEN 0 ELSE 1)
            /\ \A p \in PlatformLists : AppendBase(p)]_vars
    /\ [](ret.err \in {NoReturn.err, NoErr, PullError, MediaTypeError,
                       AppendLayersError, DigestError} \cup WriteErrors)

C11_Witness ==
    /\ Len(config.Platforms) = 2
    /\ warned = 1
    /\ ret.err = NoErr
    /\ Len(registry.layers) = 3

\* C12: once New has been called with a base or a destination string that is
\* not a valid reference, the error it returned is InvalidReference.
C12_InvalidReference ==
    (op # "" /\ (ParseReference(config.Base) = Nil \/ ParseReference(config.Tag) = Nil))
        => newErr = "InvalidReference"

\* C13: with a destination string that is not a valid reference, the writer
\* goroutine is never launched.
C13_NoWriteUnresolved ==
    (op # "" /\ ParseReference(config.Tag) = Nil) => wpc = "none"

\* C14: the image push hands to the writer, the only image ever stored at the
\* destination, has the base's layers followed by the layers Append was
\* given, in their order; with no layers given the append stage has no
\* error and the image is the base but for its annotations.
C14_LayersAppended ==
    /\ [][(pc = "push" /\ pc' = "drain") =>
            /\ wImg'.layers = base.layers \o layers
            /\ Len(wImg'.layers) = Len(base.layers) + Len(layers)
            /\ layers = <<>> => [wImg' EXCEPT !.annotations = base.annotations] = base]_vars
    /\ [][(pc = "appendLayers" /\ layers = <<>>) => pc' = "annotate"]_vars
    /\ [](registry # NoImage => registry = wImg)

C14_Witness ==
    /\ registry # NoImage
    /\ ret.err = NoErr
    /\ Len(registry.layers) = 4
    /\ registry.layers[3].id = "n2"
    /\ registry.layers[4].id = "n1"

\* C15: the image stored at the destination carries, as its base digest
\* annotation, the string form of the digest of the base Append pulled.
C15_BaseDigestAnnotation ==
    (registry # NoImage /\ base # NoImage) =>
        /\ AnnotationBaseImageDigest \in DOMAIN registry.annotations
        /\ registry.annotations[AnnotationBaseImageDigest] = HashString(Digest(base))

\* C16: Append does not go on past a stage that failed: it is never at a
\* later stage, nor has it started the writer, with the zero hash a failed
\* base.Digest() leaves; and an error it returns comes with the zero hash.
C16_StageFailuresReturned ==
    /\ (pc \in {"appendLayers", "annotate", "digest", "push", "drain", "result"}
            => baseDigest # ZeroHash)
    /\ (wpc # "none" /\ base # NoImage => baseDigest # ZeroHash)
    /\ (ret.err \notin {NoErr, NoReturn.err} => ret.hash = ZeroHash)

\* push has forwarded the error of an update onto the result channel.
PushForwarded == \E i \in 1..Len(errSends) : errSends[i].by = "push"

\* C17: the step of push that receives an update carrying an error sends
\* that error on the result channel and leaves the loop; from then on push
\* receives nothing from the progress channel and logs nothing.
C17_ErrorEndsDrain ==
    /\ [][(/\ pc = "drain" /\ progressChan # <<>>
           /\ Head(progressChan).Error # NoErr
           /\ Len(progressChan') < Len(progressChan)) =>
            /\ errChan' = Append(errChan, Head(progressChan).Error)
            /\ pc' = "result"]_vars
    /\ [][PushForwarded => (Len(progressChan') >= Len(progressChan) /\ log' = log)]_vars

C17_Witness ==
    /\ PushForwarded
    /\ PushReturned
    /\ Len(progressChan) > 0
    /\ Len(log) = 2

\* C18 as claimed: once push has returned, the writer has closed the
\* progress channel and is not blocked sending an update on it.
C18_ClosedAtReturn ==
    PushReturned =>
        /\ closed
        /\ ~(wpc = "send" /\ Len(progressChan) = ProgressCap)

\* C18 as amended: push leaves its loop only when the progress channel is
\* closed and empty or on an update carrying an error; a push that received
\* no such update returns only after the writer has closed the channel and
\* every update has been received, the writer having nothing left to send.
C18_ClosedUnlessError ==
    /\ [][(pc = "drain" /\ pc' = "result") =>
            \/ closed /\ progressChan = <<>>
            \/ progressChan # <<>> /\ Head(progressChan).Error # NoErr]_vars
    /\ []((PushReturned /\ ~PushForwarded) =>
            /\ closed
            /\ progressChan = <<>>
            /\ wpc = "done")

C18_Witness ==
    /\ PushReturned
    /\ ~PushForwarded
    /\ closed
    /\ Len(sent) >= 2
    /\ ret.err = "connection reset"

\* C19: every layer Append has added to the base is of the layer type
\* resolved for the base's manifest.
C19_AddedLayersPaired ==
    img # NoImage =>
        \A i \in (Len(base.layers) + 1)..Len(img.layers) :
            img.layers[i].mediaType = PairedLayerType(base.mediaType)

\* C20: at most two values are sent on the result channel, at most one by
\* the writer and one by push; whenever the writer is at its final send, or
\* push is about to forward the error of an update, the channel has room;
\* and the writer's final send completes, push returned or not, in a process
\* that does not end first.
C20_ResultSendsNeverBlock ==
    /\ [](Len(errSends) <= 2)
    /\ [](\A i, j \in 1..Len(errSends) : errSends[i].by = errSends[j].by => i = j)
    /\ [](wpc = "report" => Len(errChan) < ErrCap)
    /\ []((pc = "drain" /\ progressChan # <<>> /\ Head(progressChan).Error # NoErr)
            => Len(errChan) < ErrCap)
    /\ (wpc = "report") ~> (wpc = "done" \/ pc = "dead")

C20_Witness ==
    /\ PushReturned
    /\ wpc = "done"
    /\ Len(errSends) = 2
    /\ errSends[1].by = "push"
    /\ errReads = <<errSends[1].val>>
    /\ errChan = <<wResult>>

====
